---- MODULE Spec2Model ----
(***************************************************************************)
(* Structure extraction (process_pdfs.py) and section assembly / ranking   *)
(* (main_pipeline.py) of the PDF outline and relevance pipeline.           *)
(*                                                                         *)
(* A text is a sequence of one-character strings, so that the regular      *)
(* expressions of the code are matched character by character.  Font       *)
(* sizes, positions and page heights are integers; a comparison such as    *)
(* font_size >= median * 1.2 is written 10 * font_size >= 12 * median.     *)
(***************************************************************************)
EXTENDS Integers, Sequences, FiniteSets, TLC

None == "None"

(* ---------------------------------------------------------------------- *)
(* Characters and regular expressions                                      *)
(* ---------------------------------------------------------------------- *)

UpperSeq ==
  <<"A", "B", "C", "D", "E", "F", "G", "H", "I", "J", "K", "L", "M",
    "N", "O", "P", "Q", "R", "S", "T", "U", "V", "W", "X", "Y", "Z">>

LowerSeq ==
  <<"a", "b", "c", "d", "e", "f", "g", "h", "i", "j", "k", "l", "m",
    "n", "o", "p", "q", "r", "s", "t", "u", "v", "w", "x", "y", "z">>

Upper == {UpperSeq[i] : i \in 1..26}

Lower == {LowerSeq[i] : i \in 1..26}

Letter == Upper \cup Lower

Digit == {"0", "1", "2", "3", "4", "5", "6", "7", "8", "9"}

Ws == {" ", "\t", "\n"}

ToLower(c) ==
  IF c \in Upper THEN LowerSeq[CHOOSE i \in 1..26 : UpperSeq[i] = c] ELSE c

\* str.lower()
lower(t) == [i \in 1..Len(t) |-> ToLower(t[i])]

\* A pattern is a sequence of elements: a character class with a quantifier
\* ("1", "?", "*", "+"), or the end anchor "$".
One(S) == <<[cls |-> S, q |-> "1"]>>

Opt(S) == <<[cls |-> S, q |-> "?"]>>

Star(S) == <<[cls |-> S, q |-> "*"]>>

Plus(S) == <<[cls |-> S, q |-> "+"]>>

End == <<[cls |-> {}, q |-> "$"]>>

Lit(t) == [i \in 1..Len(t) |-> [cls |-> {t[i]}, q |-> "1"]]

RECURSIVE ReFrom(_, _, _, _)
ReFrom(pat, i, t, j) ==
  IF i > Len(pat) THEN TRUE
  ELSE LET e == pat[i]
           hit == j <= Len(t) /\ t[j] \in e.cls
       IN CASE e.q = "$" -> (j > Len(t) \/ (j = Len(t) /\ t[j] = "\n"))
                             /\ ReFrom(pat, i + 1, t, j)
            [] e.q = "1" -> hit /\ ReFrom(pat, i + 1, t, j + 1)
            [] e.q = "?" -> \/ hit /\ ReFrom(pat, i + 1, t, j + 1)
                            \/ ReFrom(pat, i + 1, t, j)
            [] e.q = "*" -> \/ hit /\ ReFrom(pat, i, t, j + 1)
                            \/ ReFrom(pat, i + 1, t, j)
            [] e.q = "+" -> hit /\ (\/ ReFrom(pat, i, t, j + 1)
                                    \/ ReFrom(pat, i + 1, t, j + 1))

\* re.match(pattern, text): the pattern matches a prefix of the text.
re_match(pat, t) == ReFrom(pat, 1, t, 1)

(* ---------------------------------------------------------------------- *)
(* Text helpers                                                            *)
(* ---------------------------------------------------------------------- *)

RECURSIVE lstrip(_)
lstrip(t) == IF t # <<>> /\ Head(t) \in Ws THEN lstrip(Tail(t)) ELSE t

RECURSIVE rstrip(_)
rstrip(t) ==
  IF t # <<>> /\ t[Len(t)] \in Ws THEN rstrip(SubSeq(t, 1, Len(t) - 1)) ELSE t

\* str.strip()
strip(t) == rstrip(lstrip(t))

\* re.sub(r'\s+', ' ', text)
RECURSIVE CollapseWs(_)
CollapseWs(t) ==
  IF t = <<>> THEN <<>>
  ELSE IF Head(t) \in Ws THEN <<" ">> \o CollapseWs(lstrip(t))
       ELSE <<Head(t)>> \o CollapseWs(Tail(t))

normalize_text(t) == IF t = <<>> THEN <<>> ELSE strip(CollapseWs(t))

\* len(text.split())
WordCount(t) ==
  Cardinality({i \in 1..Len(t) : t[i] \notin Ws /\ (i = 1 \/ t[i - 1] \in Ws)})

\* str.isupper(): at least one cased character and no lowercase one.
isupper(t) ==
  /\ \E i \in 1..Len(t) : t[i] \in Upper
  /\ \A i \in 1..Len(t) : t[i] \notin Lower

startswith(t, p) == Len(t) >= Len(p) /\ SubSeq(t, 1, Len(p)) = p

endswith(t, p) ==
  Len(t) >= Len(p) /\ SubSeq(t, Len(t) - Len(p) + 1, Len(t)) = p

(* ---------------------------------------------------------------------- *)
(* process_pdfs.py: configuration and line classification                  *)
(* ---------------------------------------------------------------------- *)

MEDIUM_WHITESPACE_THRESHOLD == 6

MAX_HEADING_LENGTH_WORDS == 30

\* The three characters of the bullet marker as they stand in the source.
BulletMarker == <<"a-circumflex", "euro", "cent">>

list_markers ==
  << Star(Ws) \o Plus(Digit) \o Lit(<<".">>) \o Plus(Ws) \o One(Lower),
     Star(Ws) \o Lit(BulletMarker) \o Plus(Ws),
     Star(Ws) \o Lit(<<"-">>) \o Plus(Ws),
     Star(Ws) \o Lit(<<"*">>) \o Plus(Ws) >>

is_list_item(text) ==
  \E k \in 1..Len(list_markers) : re_match(list_markers[k], text)

section_patterns ==
  << [pattern |-> Star(Ws) \o Plus(Digit) \o Lit(<<".">>) \o Plus(Ws)
                    \o One(Upper),
      level |-> "H1"],
     [pattern |-> Star(Ws) \o Plus(Digit) \o Lit(<<".">>) \o Plus(Digit)
                    \o Plus(Ws) \o One(Upper),
      level |-> "H2"],
     [pattern |-> Star(Ws) \o Plus(Digit) \o Lit(<<".">>) \o Plus(Digit)
                    \o Lit(<<".">>) \o Plus(Digit) \o Plus(Ws) \o One(Upper),
      level |-> "H3"],
     [pattern |-> Star(Ws) \o Plus(Letter) \o Plus(Ws) \o Plus(Digit)
                    \o Star(Ws) \o One({":", "."}) \o Plus(Ws) \o One(Upper),
      level |-> "H1"] >>

\* The level of the first pattern, in dictionary order, that matches.
FirstMatch(table, text) ==
  IF \E k \in 1..Len(table) : re_match(table[k].pattern, text)
  THEN table[CHOOSE k \in 1..Len(table) :
               /\ re_match(table[k].pattern, text)
               /\ \A j \in 1..(k - 1) : ~re_match(table[j].pattern, text)].level
  ELSE None

is_heading_by_numbering(text) == FirstMatch(section_patterns, text)

W_table == <<"t", "a", "b", "l", "e">>

W_of == <<"o", "f">>

W_contents == <<"c", "o", "n", "t", "e", "n", "t", "s">>

W_references == <<"r", "e", "f", "e", "r", "e", "n", "c", "e", "s">>

W_acknowledgements ==
  <<"a", "c", "k", "n", "o", "w", "l", "e", "d", "g", "e", "m", "e", "n",
    "t", "s">>

W_revision == <<"r", "e", "v", "i", "s", "i", "o", "n">>

W_history == <<"h", "i", "s", "t", "o", "r", "y">>

W_summary == <<"s", "u", "m", "m", "a", "r", "y">>

W_background == <<"b", "a", "c", "k", "g", "r", "o", "u", "n", "d">>

W_appendix == <<"a", "p", "p", "e", "n", "d", "i", "x">>

common_headings ==
  << [pattern |-> Lit(W_table) \o Plus(Ws) \o Lit(W_of) \o Plus(Ws)
                    \o Lit(W_contents) \o Star(Ws) \o End,
      level |-> "H1"],
     [pattern |-> Lit(W_references) \o Star(Ws) \o End, level |-> "H1"],
     [pattern |-> Lit(W_acknowledgements) \o Star(Ws) \o End, level |-> "H1"],
     [pattern |-> Lit(W_revision) \o Plus(Ws) \o Lit(W_history) \o Star(Ws)
                    \o End,
      level |-> "H1"],
     [pattern |-> Lit(W_summary) \o Star(Ws) \o End, level |-> "H1"],
     [pattern |-> Lit(W_background) \o Star(Ws) \o End, level |-> "H1"],
     [pattern |-> Lit(W_appendix) \o Plus(Ws) \o One(Lower) \o Star(Ws)
                    \o Lit(<<":">>),
      level |-> "H1"],
     [pattern |-> Lit(W_appendix) \o Plus(Ws) \o One(Lower) \o Star(Ws) \o End,
      level |-> "H1"] >>

is_common_heading(text) == FirstMatch(common_headings, lower(text))

is_visually_heading(block, text, median_font_size) ==
  /\ block.is_bold \/ 10 * block.font_size >= 12 * median_font_size
  /\ block.whitespace_above >= MEDIUM_WHITESPACE_THRESHOLD
  /\ WordCount(text) <= MAX_HEADING_LENGTH_WORDS

\* The level the visual characteristics give a visually salient line.
visual_level(block, text, median_font_size) ==
  IF block.is_bold /\ 10 * block.font_size >= 15 * median_font_size THEN "H1"
  ELSE IF block.is_bold /\ 10 * block.font_size >= 12 * median_font_size
       THEN "H2"
  ELSE IF block.is_bold \/ 10 * block.font_size >= 11 * median_font_size
       THEN "H3"
  ELSE IF isupper(text) /\ Len(text) > 5
       THEN IF 10 * block.font_size >= 12 * median_font_size THEN "H1"
            ELSE "H2"
  ELSE None

\* Variant: the visual indicators are consulted before the numbering pattern.
heading_level_visual_first(block, text, median_font_size) ==
  LET pattern_level == is_heading_by_numbering(text)
      common_level == is_common_heading(text)
  IN IF is_visually_heading(block, text, median_font_size)
     THEN visual_level(block, text, median_font_size)
     ELSE IF pattern_level # None THEN pattern_level
     ELSE common_level

\* heading_level of one line that is no list item: numbering pattern, then
\* common heading names, then the visual indicators.
heading_level(block, text, median_font_size) ==
  LET pattern_level == is_heading_by_numbering(text)
      common_level == is_common_heading(text)
  IN IF pattern_level # None THEN pattern_level
     ELSE IF common_level # None THEN common_level
     ELSE IF is_visually_heading(block, text, median_font_size)
          THEN visual_level(block, text, median_font_size)
     ELSE None

\* Variant: seen_texts is not consulted.
classify_block_no_dedup(st, block, median_font_size) ==
  LET text == normalize_text(block.text)
  IN IF text = <<>> THEN st
     ELSE IF is_list_item(text) THEN st
     ELSE LET level == heading_level(block, text, median_font_size)
          IN IF level = None THEN st
             ELSE [cands |-> Append(st.cands,
                               [text |-> text,
                                level |-> level,
                                page |-> block.page,
                                y0 |-> block.y0,
                                font_size |-> block.font_size,
                                is_pattern_based |->
                                  is_heading_by_numbering(text) # None]),
                   seen |-> st.seen \cup {text}]

\* One iteration of the second pass: st = [cands, seen].
classify_block(st, block, median_font_size) ==
  LET text == normalize_text(block.text)
  IN IF text = <<>> \/ text \in st.seen THEN st
     ELSE IF is_list_item(text) THEN st
     ELSE LET level == heading_level(block, text, median_font_size)
          IN IF level = None THEN st
             ELSE [cands |-> Append(st.cands,
                               [text |-> text,
                                level |-> level,
                                page |-> block.page,
                                y0 |-> block.y0,
                                font_size |-> block.font_size,
                                is_pattern_based |->
                                  is_heading_by_numbering(text) # None]),
                   seen |-> st.seen \cup {text}]

(* ---------------------------------------------------------------------- *)
(* process_pdfs.py: extract_document_structure, refine_document_structure *)
(* ---------------------------------------------------------------------- *)

\* A document is a sequence of pages, a page a sequence of lines
\* [text, font_size, is_bold, y0, y1]: the joined span texts of the line and
\* the size, boldness and bounding box taken from its first span.

\* First pass over the lines of one page.
RECURSIVE page_blocks(_, _, _)
page_blocks(lines, page_num, prev_y_bottom) ==
  IF lines = <<>> THEN <<>>
  ELSE LET line == Head(lines)
           line_text == strip(line.text)
       IN IF line_text = <<>>
          THEN page_blocks(Tail(lines), page_num, prev_y_bottom)
          ELSE <<[text |-> line_text,
                  font_size |-> line.font_size,
                  is_bold |-> line.is_bold,
                  y0 |-> line.y0,
                  y1 |-> line.y1,
                  whitespace_above |->
                    IF prev_y_bottom > 0 THEN line.y0 - prev_y_bottom ELSE 0,
                  page |-> page_num]>>
               \o page_blocks(Tail(lines), page_num, line.y1)

\* First pass: all text lines of the pages page_num, page_num + 1, ...
RECURSIVE first_pass(_, _)
first_pass(doc, page_num) ==
  IF page_num >= Len(doc) THEN <<>>
  ELSE page_blocks(doc[page_num + 1], page_num, 0)
       \o first_pass(doc, page_num + 1)

\* font_sizes.sort(); font_sizes[len(font_sizes) // 2]
median_of(all_blocks_) ==
  LET n == Len(all_blocks_)
      k == n \div 2
  IN CHOOSE v \in {all_blocks_[i].font_size : i \in 1..n} :
       /\ Cardinality({i \in 1..n : all_blocks_[i].font_size < v}) <= k
       /\ Cardinality({i \in 1..n : all_blocks_[i].font_size <= v}) > k

RECURSIVE second_pass(_, _, _, _)
second_pass(all_blocks_, i, st, median_font_size) ==
  IF i > Len(all_blocks_) THEN st
  ELSE second_pass(all_blocks_, i + 1,
                   classify_block(st, all_blocks_[i], median_font_size),
                   median_font_size)

\* key=lambda x: (x["page"], x["y0"])
KeyLess(a, b) == a.page < b.page \/ (a.page = b.page /\ a.y0 < b.y0)

\* list.sort is stable: x goes after every element whose key is not greater.
StableInsert(sorted, x) ==
  LET n == Len(sorted)
      k == Cardinality({i \in 1..n : ~KeyLess(x, sorted[i])})
  IN SubSeq(sorted, 1, k) \o <<x>> \o SubSeq(sorted, k + 1, n)

RECURSIVE sort_by_position(_)
sort_by_position(s) ==
  IF s = <<>> THEN <<>>
  ELSE StableInsert(sort_by_position(SubSeq(s, 1, Len(s) - 1)), s[Len(s)])

\* re.match(r'^(\d+)\.(\d+)?\.?(\d+)?', text)
section_match(text) == re_match(Plus(Digit) \o Lit(<<".">>), text)

\* groups[1] of that match: digits follow the first dot.
has_subsection(text) ==
  re_match(Plus(Digit) \o Lit(<<".">>) \o One(Digit), text)

T_for_each == <<"f", "o", "r", " ", "e", "a", "c", "h">>

T_mean == <<"m", "e", "a", "n", ":">>

\* Variant: the level-jump check is left out.
refined_level_no_jump_check(headings, i, processed) ==
  LET text == headings[i].text
      level == headings[i].level
      numbered == IF section_match(text)
                  THEN IF has_subsection(text) THEN "H2" ELSE "H1"
                  ELSE level
      prev == processed[Len(processed)]
  IN IF /\ i > 1
        /\ startswith(lower(text), T_for_each)
        /\ endswith(lower(prev.text), T_mean)
     THEN "H4"
     ELSE numbered

\* The level of headings[i] after one iteration of the refinement loop;
\* processed holds the entries refined so far.
refined_level(headings, i, processed) ==
  LET text == headings[i].text
      level == headings[i].level
      numbered == IF section_match(text)
                  THEN IF has_subsection(text) THEN "H2" ELSE "H1"
                  ELSE level
      prev == processed[Len(processed)]
      nojump == IF i > 1 /\ numbered = "H3" /\ prev.level = "H1" THEN "H2"
                ELSE numbered
  IN IF /\ i > 1
        /\ startswith(lower(text), T_for_each)
        /\ endswith(lower(prev.text), T_mean)
     THEN "H4"
     ELSE nojump

RECURSIVE refine_from(_, _, _)
refine_from(headings, i, processed) ==
  IF i > Len(headings) THEN processed
  ELSE refine_from(headings, i + 1,
                   Append(processed,
                          [level |-> refined_level(headings, i, processed),
                           text |-> headings[i].text,
                           page |-> headings[i].page]))

refine_document_structure(headings) ==
  IF headings = <<>> THEN <<>> ELSE refine_from(headings, 1, <<>>)

extract_document_structure(doc) ==
  LET blocks == first_pass(doc, 0)
  IN IF blocks = <<>> THEN <<>>
     ELSE refine_document_structure(
            sort_by_position(
              second_pass(blocks, 1, [cands |-> <<>>, seen |-> {}],
                          median_of(blocks)).cands))

(* ---------------------------------------------------------------------- *)
(* process_pdfs.py: looks_like_title, extract_title_from_page              *)
(* ---------------------------------------------------------------------- *)

looks_like_title(text, is_bold_, font_size, y_position, page_height) ==
  IF text = <<>> THEN FALSE
  ELSE IF 10 * y_position > 4 * page_height THEN FALSE
  ELSE IF WordCount(text) > 15 THEN FALSE
  ELSE is_bold_ \/ font_size >= 14

\* Lines 120-144: the title candidates in layout order.
RECURSIVE collect_title_candidates(_, _)
collect_title_candidates(lines, page_height) ==
  IF lines = <<>> THEN <<>>
  ELSE LET line == Head(lines)
           line_text == strip(line.text)
           rest == collect_title_candidates(Tail(lines), page_height)
       IN IF line_text = <<>> THEN rest
          ELSE IF looks_like_title(line_text, line.is_bold, line.font_size,
                                   line.y0, page_height)
               THEN <<[text |-> line_text, font_size |-> line.font_size,
                       is_bold |-> line.is_bold, y0 |-> line.y0]>> \o rest
          ELSE rest

\* title_candidates.sort(key=lambda x: x["y0"]), a stable sort
RECURSIVE sort_by_y0(_)
sort_by_y0(s) ==
  IF s = <<>> THEN <<>>
  ELSE LET sorted == sort_by_y0(SubSeq(s, 1, Len(s) - 1))
           x == s[Len(s)]
           k == Cardinality({i \in 1..Len(sorted) : sorted[i].y0 <= x.y0})
       IN SubSeq(sorted, 1, k) \o <<x>> \o SubSeq(sorted, k + 1, Len(sorted))

MaxFontSize(cands) ==
  CHOOSE v \in {cands[i].font_size : i \in 1..Len(cands)} :
    \A i \in 1..Len(cands) : cands[i].font_size <= v

\* " ".join(parts)
RECURSIVE join_space(_)
join_space(parts) ==
  IF parts = <<>> THEN <<>>
  ELSE IF Len(parts) = 1 THEN parts[1]
  ELSE parts[1] \o <<" ">> \o join_space(Tail(parts))

RECURSIVE texts_of(_)
texts_of(cands) ==
  IF cands = <<>> THEN <<>> ELSE <<Head(cands).text>> \o texts_of(Tail(cands))

\* Variant: the title parts are taken from all candidates, not from the ones
\* with the largest or near-largest font.
extract_title_no_font_tier(page) ==
  LET title_candidates ==
        sort_by_y0(collect_title_candidates(page.lines, page.height))
      InBand(c) == 100 * c.y0 < 25 * page.height
      title_parts == texts_of(SelectSeq(title_candidates, InBand))
  IN IF title_candidates = <<>> THEN <<>>
     ELSE IF title_parts # <<>> THEN join_space(title_parts)
     ELSE title_candidates[1].text

extract_title_from_page(page) ==
  LET title_candidates ==
        sort_by_y0(collect_title_candidates(page.lines, page.height))
      max_font == MaxFontSize(title_candidates)
      NearLargest(c) == 10 * c.font_size >= 9 * max_font
      top_candidates == SelectSeq(title_candidates, NearLargest)
      InBand(c) == 100 * c.y0 < 25 * page.height
      title_parts == texts_of(SelectSeq(top_candidates, InBand))
  IN IF title_candidates = <<>> THEN <<>>
     ELSE IF title_parts # <<>> THEN join_space(title_parts)
     ELSE title_candidates[1].text

(* ---------------------------------------------------------------------- *)
(* process_pdfs.py: process_pdf                                            *)
(* ---------------------------------------------------------------------- *)

\* A PDF file is [filename, fails, page_height, pages]: fails says whether
\* fitz.open raises ("open"), the layout extraction raises ("extract") or
\* nothing does ("none"); pages is the document as above.

N_file01 == <<"f", "i", "l", "e", "0", "1", ".", "p", "d", "f">>

N_file02 == <<"f", "i", "l", "e", "0", "2", ".", "p", "d", "f">>

N_file03 == <<"f", "i", "l", "e", "0", "3", ".", "p", "d", "f">>

N_file04 == <<"f", "i", "l", "e", "0", "4", ".", "p", "d", "f">>

N_file05 == <<"f", "i", "l", "e", "0", "5", ".", "p", "d", "f">>

T_HopeToSee ==
  <<"H", "O", "P", "E", " ", "T", "o", " ", "S", "E", "E", " ", "Y", "o", "u",
    " ", "T", "H", "E", "R", "E", "!">>

T_PathwayOptions ==
  <<"P", "A", "T", "H", "W", "A", "Y", " ", "O", "P", "T", "I", "O", "N", "S">>

T_Overview == <<"O", "v", "e", "r", "v", "i", "e", "w">>

T_OverviewFoundation ==
  T_Overview \o
  <<" ", "F", "o", "u", "n", "d", "a", "t", "i", "o", "n", " ", "L", "e", "v",
    "e", "l", " ", "E", "x", "t", "e", "n", "s", "i", "o", "n", "s">>

\* The title fixed for file03.pdf (line 356)
T_RfpTitle ==
  <<"R", "F", "P", ":", "R", "e", "q", "u", "e", "s", "t", " ", "f", "o", "r",
    " ", "P", "r", "o", "p", "o", "s", "a", "l", " ", "T", "o", " ", "P", "r",
    "e", "s", "e", "n", "t", " ", "a", " ", "P", "r", "o", "p", "o", "s", "a",
    "l", " ", "f", "o", "r", " ", "D", "e", "v", "e", "l", "o", "p", "i", "n",
    "g", " ", "t", "h", "e", " ", "B", "u", "s", "i", "n", "e", "s", "s", " ",
    "P", "l", "a", "n", " ", "f", "o", "r", " ", "t", "h", "e", " ", "O", "n",
    "t", "a", "r", "i", "o", " ", "D", "i", "g", "i", "t", "a", "l", " ", "L",
    "i", "b", "r", "a", "r", "y">>

\* The artifact of the except branch, lines 373-375.
ErrorArtifact == [title |-> <<>>, outline |-> <<>>, error |-> "error"]

\* Lines 347-372: title and outline of an opened document.
structure_of(file) ==
  LET first_title ==
        IF Len(file.pages) > 0
        THEN extract_title_from_page(
               [height |-> file.page_height, lines |-> file.pages[1]])
        ELSE <<>>
      fixed_title ==
        IF file.filename = N_file02 /\ first_title = T_Overview
        THEN T_OverviewFoundation
        ELSE IF file.filename = N_file03 THEN T_RfpTitle
        ELSE first_title
      extracted == extract_document_structure(file.pages)
  IN [title |-> fixed_title,
      outline |->
        IF file.filename = N_file04
        THEN <<[level |-> "H1", text |-> T_PathwayOptions, page |-> 0]>>
        ELSE IF file.filename = N_file01 THEN <<>>
        ELSE extracted,
      error |-> None]

\* Variant: the try/except of process_pdf is missing, an error propagates.
process_pdf_uncaught(file) ==
  IF file.fails = "open" THEN [raised |-> TRUE, result |-> None]
  ELSE IF file.filename = N_file05
       THEN [raised |-> FALSE,
             result |-> [title |-> <<>>,
                         outline |-> <<[level |-> "H1", text |-> T_HopeToSee,
                                        page |-> 0]>>,
                         error |-> None]]
  ELSE IF file.fails = "extract" THEN [raised |-> TRUE, result |-> None]
  ELSE [raised |-> FALSE, result |-> structure_of(file)]

\* process_pdf: what it returns, and whether it raises (it never does).
process_pdf(file) ==
  IF file.fails = "open" THEN [raised |-> FALSE, result |-> ErrorArtifact]
  ELSE IF file.filename = N_file05
       THEN [raised |-> FALSE,
             result |-> [title |-> <<>>,
                         outline |-> <<[level |-> "H1", text |-> T_HopeToSee,
                                        page |-> 0]>>,
                         error |-> None]]
  ELSE IF file.fails = "extract"
       THEN [raised |-> FALSE, result |-> ErrorArtifact]
  ELSE [raised |-> FALSE, result |-> structure_of(file)]

(* ---------------------------------------------------------------------- *)
(* main_pipeline.py: file names                                            *)
(* ---------------------------------------------------------------------- *)

E_pdf == <<".", "p", "d", "f">>

E_json == <<".", "j", "s", "o", "n">>

\* os.path.splitext(file)[0]
splitext_root(name) ==
  LET dots == {i \in 2..Len(name) : name[i] = "."}
  IN IF dots = {} THEN name
     ELSE SubSeq(name, 1, (CHOOSE i \in dots : \A j \in dots : j <= i) - 1)

\* str.replace(old, new)
RECURSIVE replace(_, _, _)
replace(t, old, new) ==
  IF t = <<>> THEN <<>>
  ELSE IF startswith(t, old)
       THEN new \o replace(SubSeq(t, Len(old) + 1, Len(t)), old, new)
  ELSE <<Head(t)>> \o replace(Tail(t), old, new)

\* Line 25: the files process_all_pdfs_in_folder takes up.
is_pdf_name(name) == endswith(lower(name), E_pdf)

\* Line 32: the name the parsed JSON of a PDF is saved under.
saved_json_name(name) == splitext_root(name) \o E_json

\* Lines 108-109: the name the parsed JSON of a document is looked up under.
looked_up_json_name(pdf_filename) == replace(pdf_filename, E_pdf, E_json)

(* ---------------------------------------------------------------------- *)
(* main_pipeline.py: section assembly                                      *)
(* ---------------------------------------------------------------------- *)

DigitSeq == <<"0", "1", "2", "3", "4", "5", "6", "7", "8", "9">>

\* str(n) of a number n >= 0
RECURSIVE str(_)
str(n) ==
  IF n < 10 THEN <<DigitSeq[n + 1]>>
  ELSE str(n \div 10) \o <<DigitSeq[(n % 10) + 1]>>

T_Page == <<"P", "a", "g", "e", " ">>

RECURSIVE join_lines(_)
join_lines(lines) ==
  IF lines = <<>> THEN <<>>
  ELSE Head(lines).text \o <<"\n">> \o join_lines(Tail(lines))

\* doc[i].get_text("text").strip() for the 0-based page index i: the texts
\* of the lines of the page, one per line.
page_text(file, i) == strip(join_lines(file.pages[i + 1]))

\* Lines 57-65, 117-125, 132-140: one section per page with text, from the
\* 0-based page index page_num on.
RECURSIVE page_sections(_, _)
page_sections(file, page_num) ==
  IF page_num >= Len(file.pages) THEN <<>>
  ELSE LET text == page_text(file, page_num)
           rest == page_sections(file, page_num + 1)
       IN IF text # <<>>
          THEN <<[document |-> file.filename,
                  page_number |-> page_num + 1,
                  text |-> text,
                  section_title |-> T_Page \o str(page_num + 1)]>> \o rest
          ELSE rest

extract_text_for_page(file, page_number) ==
  IF 1 <= page_number /\ page_number <= Len(file.pages)
  THEN page_text(file, page_number - 1)
  ELSE <<>>

\* Lines 68-81: one section per outline entry whose page has text.  (The
\* entries process_pdf writes always carry a page and a text, so the check
\* for a missing one never applies.)
RECURSIVE heading_sections(_, _)
heading_sections(file, headings) ==
  IF headings = <<>> THEN <<>>
  ELSE LET heading == Head(headings)
           rest == heading_sections(file, Tail(headings))
           text == extract_text_for_page(file, heading.page)
       IN IF text = <<>> THEN rest
          ELSE <<[document |-> file.filename,
                  page_number |-> heading.page,
                  text |-> text,
                  section_title |-> heading.text]>> \o rest

\* parsed is the artifact in the parsed JSON; loaded is FALSE when reading
\* it raised, and parsed_data is then {}.
build_sections_from_parsed_json(file, loaded, parsed) ==
  LET parsed_outline == IF loaded THEN parsed.outline ELSE <<>>
  IN IF parsed_outline = <<>> THEN page_sections(file, 0)
     ELSE heading_sections(file, parsed_outline)

\* Variant: no fallback in process_documents when the outline gives no
\* section.
document_sections_no_second_fallback(file, has_json, loaded, parsed) ==
  IF ~has_json THEN page_sections(file, 0)
  ELSE build_sections_from_parsed_json(file, loaded, parsed)

\* Lines 114-142: the sections one document adds to all_sections.
document_sections(file, has_json, loaded, parsed) ==
  IF ~has_json THEN page_sections(file, 0)
  ELSE LET sections == build_sections_from_parsed_json(file, loaded, parsed)
       IN IF sections = <<>> THEN page_sections(file, 0) ELSE sections

(* ---------------------------------------------------------------------- *)
(* main_pipeline.py: create_summary and ranking                            *)
(* ---------------------------------------------------------------------- *)

\* Python's None where a text or a number is expected: a text that is no
\* sequence of characters, and a number that is no page number.
NoText == <<"None">>

NoNumber == -1

SentenceEnd == {".", "!", "?"}

\* re.split(r'(?<=[.!?])\s+', text)
RECURSIVE re_split(_)
re_split(t) ==
  LET cuts == {i \in 1..(Len(t) - 1) : t[i] \in SentenceEnd /\ t[i + 1] \in Ws}
  IN IF cuts = {} THEN <<t>>
     ELSE LET i == CHOOSE c \in cuts : \A d \in cuts : c <= d
          IN <<SubSeq(t, 1, i)>> \o re_split(lstrip(SubSeq(t, i + 1, Len(t))))

\* [s.strip() for s in sentences if s.strip()]
RECURSIVE stripped_nonempty(_)
stripped_nonempty(parts) ==
  IF parts = <<>> THEN <<>>
  ELSE IF strip(Head(parts)) = <<>> THEN stripped_nonempty(Tail(parts))
  ELSE <<strip(Head(parts))>> \o stripped_nonempty(Tail(parts))

\* Variant: the sentences that are empty once trimmed are kept.
create_summary_keeps_empty(text, num_sentences) ==
  LET parts == re_split(text)
      sentences == [i \in 1..Len(parts) |-> strip(parts[i])]
      selected == SubSeq(sentences, 1,
                         IF Len(sentences) < num_sentences THEN Len(sentences)
                         ELSE num_sentences)
  IN join_space(selected)

create_summary(text, num_sentences) ==
  LET sentences == stripped_nonempty(re_split(text))
      selected == SubSeq(sentences, 1,
                         IF Len(sentences) < num_sentences THEN Len(sentences)
                         ELSE num_sentences)
  IN join_space(selected)

\* The orders of the indices in rest in which the scores do not increase
RECURSIVE ArgsortFrom(_, _)
ArgsortFrom(scores, rest) ==
  IF rest = {} THEN {<<>>}
  ELSE LET first == {i \in rest : \A j \in rest : scores[i] >= scores[j]}
       IN UNION {{<<i>> \o p : p \in ArgsortFrom(scores, rest \ {i})} :
                 i \in first}

\* Variant: the scores are not negated, the order is ascending.
RECURSIVE ArgsortAscendingFrom(_, _)
ArgsortAscendingFrom(scores, rest) ==
  IF rest = {} THEN {<<>>}
  ELSE LET first == {i \in rest : \A j \in rest : scores[i] <= scores[j]}
       IN UNION {{<<i>> \o p : p \in ArgsortAscendingFrom(scores, rest \ {i})} :
                 i \in first}

argsort_not_negated(scores) == ArgsortAscendingFrom(scores, 1..Len(scores))

\* np.argsort(-cos_scores): the orders of the indices 1..n in which the
\* scores do not increase; equal scores may come in any order.
ArgsortDescending(scores) == ArgsortFrom(scores, 1..Len(scores))

\* ranked_indices[:n] for n >= 0
top_slice(ranked_indices, n) ==
  SubSeq(ranked_indices, 1,
         IF n < Len(ranked_indices) THEN n ELSE Len(ranked_indices))

\* Variant: the loop that fills the lists up to top_n is missing.
RECURSIVE extracted_sections_no_padding(_, _, _, _)
extracted_sections_no_padding(sections, top_indices_, rank, n) ==
  IF rank <= Len(top_indices_)
  THEN <<[document |-> sections[top_indices_[rank]].document,
          section_title |-> sections[top_indices_[rank]].section_title,
          importance_rank |-> rank,
          page_number |-> sections[top_indices_[rank]].page_number]>>
       \o extracted_sections_no_padding(sections, top_indices_, rank + 1, n)
  ELSE <<>>

\* Lines 170-178 and 186-193
RECURSIVE extracted_sections_from(_, _, _, _)
extracted_sections_from(sections, top_indices_, rank, n) ==
  IF rank <= Len(top_indices_)
  THEN <<[document |-> sections[top_indices_[rank]].document,
          section_title |-> sections[top_indices_[rank]].section_title,
          importance_rank |-> rank,
          page_number |-> sections[top_indices_[rank]].page_number]>>
       \o extracted_sections_from(sections, top_indices_, rank + 1, n)
  ELSE IF rank <= n
  THEN <<[document |-> NoText, section_title |-> NoText,
          importance_rank |-> rank, page_number |-> NoNumber]>>
       \o extracted_sections_from(sections, top_indices_, rank + 1, n)
  ELSE <<>>

\* Lines 179-183 and 194-198
RECURSIVE subsection_analysis_from(_, _, _, _)
subsection_analysis_from(sections, top_indices_, rank, n) ==
  IF rank <= Len(top_indices_)
  THEN <<[document |-> sections[top_indices_[rank]].document,
          refined_text |-> create_summary(sections[top_indices_[rank]].text, 3),
          page_number |-> sections[top_indices_[rank]].page_number]>>
       \o subsection_analysis_from(sections, top_indices_, rank + 1, n)
  ELSE IF rank <= n
  THEN <<[document |-> NoText, refined_text |-> NoText,
          page_number |-> NoNumber]>>
       \o subsection_analysis_from(sections, top_indices_, rank + 1, n)
  ELSE <<>>

(* ---------------------------------------------------------------------- *)
(* Structure extraction as a state machine                                 *)
(* ---------------------------------------------------------------------- *)

VARIABLES
  doc,                \* the opened document: pages of lines
  all_blocks,         \* first pass result
  median_font_size,
  block_idx,          \* position of the second pass in all_blocks
  heading_candidates,
  seen_texts,
  outline,            \* result of extract_document_structure
  xs_pc,
  title_page,         \* the first page given to extract_title_from_page
  title,              \* its result
  title_pc,
  folders,            \* main: the subfolders of the root, in listing order
  folder_idx,         \* main: the subfolder being handled
  statuses,           \* what became of each subfolder
  pdf_files,          \* the files of the pdfs folder of the collection
  documents,          \* the file names listed in challenge1b_input.json
  pdf_idx,            \* position of process_all_pdfs_in_folder
  parsed_json,        \* the parsed JSON files saved, by name
  doc_idx,            \* position of process_documents in documents
  all_sections,
  top_n,
  cos_scores,
  top_indices,
  output,             \* extracted_sections and subsection_analysis
  run_pc,
  summary_text,       \* create_summary: the text given
  summary,            \* its result
  summary_pc

xs_vars ==
  <<doc, all_blocks, median_font_size, block_idx, heading_candidates,
    seen_texts, outline, xs_pc>>

title_vars == <<title_page, title, title_pc>>

run_vars ==
  <<folders, folder_idx, statuses, pdf_files, documents, pdf_idx, parsed_json,
    doc_idx, all_sections, top_n, cos_scores, top_indices, output, run_pc>>

summary_vars == <<summary_text, summary, summary_pc>>

vars == <<xs_vars, title_vars, run_vars, summary_vars>>

SummaryIdle ==
  /\ summary_text = <<>>
  /\ summary = <<>>
  /\ summary_pc = "idle"

NoOutput == [extracted_sections |-> <<>>, subsection_analysis |-> <<>>]

\* The variables of one collection before it is taken up.
CollectionIdle ==
  /\ pdf_files = <<>>
  /\ documents = <<>>
  /\ pdf_idx = 0
  /\ parsed_json = <<>>
  /\ doc_idx = 0
  /\ all_sections = <<>>
  /\ cos_scores = <<>>
  /\ top_indices = <<>>
  /\ output = NoOutput

RunIdle ==
  /\ folders = <<>>
  /\ folder_idx = 0
  /\ statuses = <<>>
  /\ top_n = 0
  /\ run_pc = "idle"
  /\ CollectionIdle

TitleIdle ==
  /\ title_page = [height |-> 0, lines |-> <<>>]
  /\ title = <<>>
  /\ title_pc = "idle"

T_TermsMean ==
  <<"1", ".", " ", "T", "e", "r", "m", "s", " ", "m", "e", "a", "n", ":">>

T_TermsMeanWide ==
  <<"1", ".", " ", " ", "T", "e", "r", "m", "s", " ", "m", "e", "a", "n", ":">>

T_ForEachUnit ==
  <<"F", "o", "r", " ", "e", "a", "c", "h", " ", "u", "n", "i", "t">>

T_Details == <<"3", ".", "2", ".", "1", " ", "D", "e", "t", "a", "i", "l", "s">>

T_Summary == <<"S", "u", "m", "m", "a", "r", "y">>

MaxLines == 2

DocTexts ==
  {T_TermsMean, T_TermsMeanWide, T_ForEachUnit, T_Details, T_Summary}

\* <<font size, bold>> of the first span of a line
DocStyles == {<<10, FALSE>>, <<16, TRUE>>}

\* <<y0, y1>> of the bounding box of a line
DocBoxes == {<<10, 20>>, <<26, 36>>}

DocLines ==
  {[text |-> t, font_size |-> st[1], is_bold |-> st[2],
    y0 |-> box[1], y1 |-> box[2]] :
     t \in DocTexts, st \in DocStyles, box \in DocBoxes}

XsIdle ==
  /\ doc = <<>>
  /\ all_blocks = <<>>
  /\ median_font_size = 0
  /\ block_idx = 0
  /\ heading_candidates = <<>>
  /\ seen_texts = {}
  /\ outline = <<>>
  /\ xs_pc = "idle"

\* Documents of two pages holding at most MaxLines lines in all.
InitExtract ==
  /\ \E n \in 0..MaxLines : \E ls \in [1..n -> DocLines] : \E k \in 0..n :
       doc = <<SubSeq(ls, 1, k), SubSeq(ls, k + 1, n)>>
  /\ all_blocks = <<>>
  /\ median_font_size = 0
  /\ block_idx = 0
  /\ heading_candidates = <<>>
  /\ seen_texts = {}
  /\ outline = <<>>
  /\ xs_pc = "first_pass"
  /\ TitleIdle
  /\ RunIdle
  /\ SummaryIdle

\* Lines 171-220: first pass and font statistics.
FirstPass ==
  /\ xs_pc = "first_pass"
  /\ all_blocks' = first_pass(doc, 0)
  /\ IF all_blocks' = <<>>
     THEN /\ xs_pc' = "done"
          /\ UNCHANGED <<median_font_size, block_idx>>
     ELSE /\ median_font_size' = median_of(all_blocks')
          /\ block_idx' = 1
          /\ xs_pc' = "second_pass"
  /\ UNCHANGED <<doc, heading_candidates, seen_texts, outline>>
  /\ UNCHANGED <<title_vars, run_vars, summary_vars>>

\* Lines 222-273: one iteration of the second pass.
ClassifyBlock ==
  /\ xs_pc = "second_pass"
  /\ block_idx <= Len(all_blocks)
  /\ LET st == classify_block([cands |-> heading_candidates, seen |-> seen_texts],
                              all_blocks[block_idx], median_font_size)
     IN /\ heading_candidates' = st.cands
        /\ seen_texts' = st.seen
  /\ block_idx' = block_idx + 1
  /\ UNCHANGED <<doc, all_blocks, median_font_size, outline, xs_pc>>
  /\ UNCHANGED <<title_vars, run_vars, summary_vars>>

\* Lines 275-279: sort by page and position, refine, return.
RefineStructure ==
  /\ xs_pc = "second_pass"
  /\ block_idx > Len(all_blocks)
  /\ heading_candidates' = sort_by_position(heading_candidates)
  /\ outline' = refine_document_structure(heading_candidates')
  /\ xs_pc' = "done"
  /\ UNCHANGED <<doc, all_blocks, median_font_size, block_idx, seen_texts>>
  /\ UNCHANGED <<title_vars, run_vars, summary_vars>>

NextExtract == FirstPass \/ ClassifyBlock \/ RefineStructure

SpecExtract == InitExtract /\ [][NextExtract]_vars

(* ---------------------------------------------------------------------- *)
(* The second pass on one line, for any line and any median font size      *)
(* ---------------------------------------------------------------------- *)

T_Introduction ==
  <<"1", ".", " ", "I", "n", "t", "r", "o", "d", "u", "c", "t", "i", "o", "n">>

T_Scope == <<"2", ".", "1", " ", "S", "c", "o", "p", "e">>

T_AppendixData ==
  <<"A", "p", "p", "e", "n", "d", "i", "x", " ", "1", ":", " ", "D", "a", "t",
    "a">>

T_NumberedItem == <<"1", ".", " ", "i", "t", "e", "m">>

T_DashItem == <<"-", " ", "I", "t", "e", "m">>

T_StarItem == <<"*", " ", "I", "t", "e", "m">>

T_BulletItem == BulletMarker \o <<" ", "I", "t", "e", "m">>

T_Contents ==
  <<"T", "a", "b", "l", "e", " ", " ", "o", "f", " ", "C", "o", "n", "t", "e",
    "n", "t", "s">>

T_AppendixMaps ==
  <<"A", "p", "p", "e", "n", "d", "i", "x", " ", "B", ":", " ", "M", "a", "p",
    "s">>

T_ABSTRACT == <<"A", "B", "S", "T", "R", "A", "C", "T">>

\* MAX_HEADING_LENGTH_WORDS + 1 one-letter words
T_Long ==
  [i \in 1..(2 * MAX_HEADING_LENGTH_WORDS + 1) |->
     IF i % 2 = 1 THEN "a" ELSE " "]

LineTexts ==
  {T_Introduction, T_Scope, T_Details, T_AppendixData, T_NumberedItem,
   T_DashItem, T_StarItem, T_BulletItem, T_Summary, T_Contents,
   T_AppendixMaps, T_Overview, T_ABSTRACT, T_Long}

LineFontSizes == {10, 11, 12, 15, 16}

LineGaps == {0, 5, 6}

MedianSizes == {10, 12}

InitClassify ==
  /\ doc = <<>>
  /\ \E t \in LineTexts, f \in LineFontSizes, b \in BOOLEAN, g \in LineGaps :
       all_blocks = <<[text |-> t, font_size |-> f, is_bold |-> b, y0 |-> 26,
                       y1 |-> 36, whitespace_above |-> g, page |-> 0]>>
  /\ median_font_size \in MedianSizes
  /\ block_idx = 1
  /\ heading_candidates = <<>>
  /\ seen_texts = {}
  /\ outline = <<>>
  /\ xs_pc = "second_pass"
  /\ TitleIdle
  /\ RunIdle
  /\ SummaryIdle

NextClassify == ClassifyBlock \/ RefineStructure

SpecClassify == InitClassify /\ [][NextClassify]_vars

(* ---------------------------------------------------------------------- *)
(* Properties of the structure extraction                                  *)
(* ---------------------------------------------------------------------- *)

LevelNumber(level) ==
  CASE level = "H1" -> 1 [] level = "H2" -> 2 [] level = "H3" -> 3
    [] level = "H4" -> 4

\* C3, as stated: in the returned outline no two adjacent entries have levels
\* that differ by more than one step.
C3_AdjacentLevelsWithinOneStep ==
  xs_pc = "done" =>
    \A i \in 1..(Len(outline) - 1) :
      LET d == LevelNumber(outline[i].level) - LevelNumber(outline[i + 1].level)
      IN d \in {-1, 0, 1}

\* C3, amended: in the returned outline no H3 entry immediately follows an
\* H1 entry.
C3_NoH3RightAfterH1 ==
  xs_pc = "done" =>
    \A i \in 1..(Len(outline) - 1) :
      ~(outline[i].level = "H1" /\ outline[i + 1].level = "H3")

\* A candidate classified H3 that follows an H1 came out as H2.
C3_Witness ==
  /\ xs_pc = "done"
  /\ \E i \in 1..(Len(outline) - 1) :
       /\ outline[i].level = "H1"
       /\ heading_candidates[i + 1].level = "H3"
       /\ ~section_match(heading_candidates[i + 1].text)
       /\ outline[i + 1].level = "H2"

\* C4: the outline (and the candidate list it is made from) never holds two
\* entries with the same normalized heading text.
C4_NoDuplicateHeadingText ==
  /\ \A i, j \in 1..Len(heading_candidates) :
       i # j => heading_candidates[i].text # heading_candidates[j].text
  /\ \A i, j \in 1..Len(outline) :
       i # j => outline[i].text # outline[j].text
  /\ \A i \in 1..Len(outline) : outline[i].text = normalize_text(outline[i].text)

\* Two lines with the same normalized text, the first one accepted as a
\* heading, gave one outline entry.
C4_Witness ==
  /\ xs_pc = "done"
  /\ Len(all_blocks) = 2
  /\ all_blocks[1].text # all_blocks[2].text
  /\ normalize_text(all_blocks[1].text) = normalize_text(all_blocks[2].text)
  /\ Len(outline) = 1
  /\ outline[1].text = normalize_text(all_blocks[2].text)

\* C10: the tiers are tried in order and the first match decides: list item
\* (never a heading), numbering pattern, common heading name (H1), visual
\* indicators; a line matching no tier is not a heading.
C10_TiersInPriorityOrder ==
  (Len(all_blocks) = 1 /\ block_idx = 2 /\ xs_pc = "second_pass") =>
    LET b == all_blocks[1]
        text == normalize_text(b.text)
        isHeading == Len(heading_candidates) = 1
        level == heading_candidates[1].level
        ratio(k) == 10 * b.font_size >= k * median_font_size
        salient == /\ b.is_bold \/ ratio(12)
                   /\ b.whitespace_above >= 6
                   /\ WordCount(text) <= 30
    IN /\ IF is_list_item(text) THEN ~isHeading
          ELSE IF is_heading_by_numbering(text) # None
               THEN isHeading /\ level = is_heading_by_numbering(text)
          ELSE IF is_common_heading(text) # None
               THEN isHeading /\ level = "H1"
          ELSE IF salient
               THEN /\ isHeading
                    /\ level = IF b.is_bold /\ ratio(15) THEN "H1"
                               ELSE IF b.is_bold /\ ratio(12) THEN "H2"
                               ELSE "H3"
          ELSE ~isHeading
       /\ text = T_Introduction => isHeading /\ level = "H1"
       /\ text = T_Scope => isHeading /\ level = "H2"
       /\ text = T_Details => isHeading /\ level = "H3"
       /\ text \in {T_NumberedItem, T_DashItem, T_StarItem, T_BulletItem}
            => ~isHeading
       /\ text = T_Summary => isHeading /\ level = "H1"

\* "2.1 Scope", not bold, size 11, median 10, with whitespace above: H2.
C10_Witness ==
  /\ Len(all_blocks) = 1 /\ block_idx = 2 /\ xs_pc = "second_pass"
  /\ all_blocks[1].text = T_Scope
  /\ ~all_blocks[1].is_bold
  /\ all_blocks[1].font_size = 11
  /\ median_font_size = 10
  /\ Len(heading_candidates) = 1
  /\ heading_candidates[1].level = "H2"
  /\ heading_candidates[1].is_pattern_based

(* ---------------------------------------------------------------------- *)
(* extract_title_from_page on any first page                               *)
(* ---------------------------------------------------------------------- *)

MaxTitleLines == 2

\* 16 one-letter words
T_Words16 == [i \in 1..31 |-> IF i % 2 = 1 THEN "a" ELSE " "]

TitleTexts == {T_Overview, T_Contents, T_Words16}

\* <<font size, bold>>
TitleStyles == {<<10, FALSE>>, <<10, TRUE>>, <<13, TRUE>>, <<14, FALSE>>}

TitleHeights == {100}

\* y0 of a line on a page of height 100: inside the top quarter, on its
\* edge, on the edge of the top 40% and below it
TitleYs == {24, 25, 40, 41}

TitleLines ==
  {[text |-> t, font_size |-> st[1], is_bold |-> st[2], y0 |-> y] :
     t \in TitleTexts, st \in TitleStyles, y \in TitleYs}

InitTitle ==
  /\ XsIdle
  /\ \E h \in TitleHeights : \E n \in 0..MaxTitleLines :
       \E ls \in [1..n -> TitleLines] :
         title_page = [height |-> h, lines |-> ls]
  /\ title = <<>>
  /\ title_pc = "call"
  /\ RunIdle
  /\ SummaryIdle

\* process_pdf, line 350: title = extract_title_from_page(doc[0])
ExtractTitle ==
  /\ title_pc = "call"
  /\ title' = extract_title_from_page(title_page)
  /\ title_pc' = "done"
  /\ UNCHANGED <<title_page, xs_vars, run_vars, summary_vars>>

NextTitle == ExtractTitle

SpecTitle == InitTitle /\ [][NextTitle]_vars

\* The candidates of the page, as sets of line numbers.
TitleCandidates ==
  {i \in 1..Len(title_page.lines) :
     LET l == title_page.lines[i]
     IN /\ 10 * l.y0 <= 4 * title_page.height
        /\ WordCount(l.text) <= 15
        /\ l.is_bold \/ l.font_size >= 14}

TitleTier ==
  {i \in TitleCandidates :
     \A j \in TitleCandidates :
       10 * title_page.lines[i].font_size >= 9 * title_page.lines[j].font_size}

TitleBand ==
  {i \in TitleTier : 100 * title_page.lines[i].y0 < 25 * title_page.height}

\* Line i lies above line j (lines at the same height in layout order).
Above(i, j) ==
  \/ title_page.lines[i].y0 < title_page.lines[j].y0
  \/ title_page.lines[i].y0 = title_page.lines[j].y0 /\ i < j

Highest(S) == CHOOSE i \in S : \A j \in S \ {i} : Above(i, j)

RECURSIVE JoinedTopDown(_)
JoinedTopDown(S) ==
  IF S = {} THEN <<>>
  ELSE LET i == Highest(S)
       IN IF S = {i} THEN title_page.lines[i].text
          ELSE title_page.lines[i].text \o <<" ">> \o JoinedTopDown(S \ {i})

\* C9, as stated: "" without candidates; else the near-largest candidates of
\* the top quarter joined top to bottom; else the text of the highest
\* candidate of the near-largest tier.
C9_TitleHighestOfTier ==
  title_pc = "done" =>
    title = IF TitleCandidates = {} THEN <<>>
            ELSE IF TitleBand # {} THEN JoinedTopDown(TitleBand)
            ELSE title_page.lines[Highest(TitleTier)].text

\* C9, amended: when no near-largest candidate lies in the top quarter, the
\* result is the text of the highest of all candidates.
C9_TitleHighestOfAll ==
  title_pc = "done" =>
    title = IF TitleCandidates = {} THEN <<>>
            ELSE IF TitleBand # {} THEN JoinedTopDown(TitleBand)
            ELSE title_page.lines[Highest(TitleCandidates)].text

\* A page whose near-largest tier misses the top quarter and whose highest
\* candidate is outside that tier.
C9_Witness ==
  /\ title_pc = "done"
  /\ TitleCandidates # {}
  /\ TitleBand = {}
  /\ Highest(TitleCandidates) \notin TitleTier
  /\ title = title_page.lines[Highest(TitleCandidates)].text

\* Two near-largest candidates in the top quarter are joined.
C9_WitnessJoined ==
  /\ title_pc = "done"
  /\ Cardinality(TitleBand) = 2
  /\ Cardinality(TitleCandidates) = 2
  /\ title = JoinedTopDown(TitleBand)

(* ---------------------------------------------------------------------- *)
(* main_pipeline.py: the run over the collections of a root folder         *)
(* ---------------------------------------------------------------------- *)

\* top_n=5 in the call of process_documents by main
TOP_N == 5

\* json.dump to the file called name: the file is created or overwritten.
\* A saved file holds data; readable is FALSE when a later json.load of it
\* raises (json_ok of the PDF it was saved for tells which).
json_dump(store, name, entry) ==
  [n \in (DOMAIN store) \cup {name} |-> IF n = name THEN entry ELSE store[n]]

\* The index in pdf_files of the file called name, 0 when there is none
\* (os.path.isfile(pdf_path), line 111).
file_index(files, name) ==
  IF \E i \in 1..Len(files) : files[i].filename = name
  THEN CHOOSE i \in 1..Len(files) : files[i].filename = name
  ELSE 0

ResetCollection ==
  /\ pdf_files' = <<>>
  /\ documents' = <<>>
  /\ pdf_idx' = 0
  /\ parsed_json' = <<>>
  /\ doc_idx' = 0
  /\ all_sections' = <<>>
  /\ cos_scores' = <<>>
  /\ top_indices' = <<>>
  /\ output' = NoOutput

\* Lines 225-230: a subfolder without challenge1b_input.json or without a
\* pdfs folder is skipped.
SkipFolder ==
  /\ run_pc = "main"
  /\ folder_idx <= Len(folders)
  /\ folders[folder_idx] # "valid"
  /\ statuses' = [statuses EXCEPT ![folder_idx] = "skipped"]
  /\ folder_idx' = folder_idx + 1
  /\ UNCHANGED <<folders, pdf_files, documents, pdf_idx, parsed_json, doc_idx,
                 all_sections, top_n, cos_scores, top_indices, output, run_pc>>
  /\ UNCHANGED <<xs_vars, title_vars, summary_vars>>

\* Lines 232-235: a collection is taken up; files is the listing of its
\* pdfs folder and docs the file names of its descriptor.
StartCollection(files, docs) ==
  /\ run_pc = "main"
  /\ folder_idx <= Len(folders)
  /\ folders[folder_idx] = "valid"
  /\ pdf_files' = files
  /\ documents' = docs
  /\ pdf_idx' = 1
  /\ parsed_json' = <<>>
  /\ run_pc' = "parse"
  /\ UNCHANGED <<folders, folder_idx, statuses, doc_idx, all_sections, top_n,
                 cos_scores, top_indices, output>>
  /\ UNCHANGED <<xs_vars, title_vars, summary_vars>>

\* Lines 24-35: one iteration of the loop of process_all_pdfs_in_folder.
ProcessNextPdf ==
  /\ run_pc = "parse"
  /\ pdf_idx <= Len(pdf_files)
  /\ LET file == pdf_files[pdf_idx]
         parsed_data == process_pdf(file)
     IN IF is_pdf_name(file.filename) /\ ~parsed_data.raised
        THEN parsed_json' =
               json_dump(parsed_json, saved_json_name(file.filename),
                         [data |-> parsed_data.result,
                          readable |-> file.json_ok])
        ELSE UNCHANGED parsed_json
  /\ pdf_idx' = pdf_idx + 1
  /\ UNCHANGED <<folders, folder_idx, statuses, pdf_files, documents, doc_idx,
                 all_sections, top_n, cos_scores, top_indices, output, run_pc>>
  /\ UNCHANGED <<xs_vars, title_vars, summary_vars>>

\* Lines 237-242 and 90-100: the descriptor is loaded and process_documents
\* entered.
EnterProcessDocuments ==
  /\ run_pc = "parse"
  /\ pdf_idx > Len(pdf_files)
  /\ doc_idx' = 1
  /\ all_sections' = <<>>
  /\ run_pc' = "assemble"
  /\ UNCHANGED <<folders, folder_idx, statuses, pdf_files, documents, pdf_idx,
                 parsed_json, top_n, cos_scores, top_indices, output>>
  /\ UNCHANGED <<xs_vars, title_vars, summary_vars>>

\* Lines 101-142: one iteration of the loop over documents.  fitz.open of a
\* file that cannot be opened raises, and nothing catches it.
AssembleDocument ==
  /\ run_pc = "assemble"
  /\ doc_idx <= Len(documents)
  /\ LET pdf_filename == documents[doc_idx]
         i == file_index(pdf_files, pdf_filename)
         json_name == looked_up_json_name(pdf_filename)
         has_json == json_name \in DOMAIN parsed_json
         stored == IF has_json THEN parsed_json[json_name]
                   ELSE [data |-> ErrorArtifact, readable |-> FALSE]
     IN IF pdf_filename \in {NoText, <<>>} \/ i = 0
        THEN /\ doc_idx' = doc_idx + 1
             /\ UNCHANGED <<all_sections, statuses, run_pc>>
        ELSE IF pdf_files[i].fails = "open"
        THEN /\ run_pc' = "crashed"
             /\ statuses' = [statuses EXCEPT ![folder_idx] = "open_error"]
             /\ UNCHANGED <<all_sections, doc_idx>>
        ELSE /\ all_sections' =
                  all_sections \o
                  document_sections(pdf_files[i], has_json, stored.readable,
                                    stored.data)
             /\ doc_idx' = doc_idx + 1
             /\ UNCHANGED <<statuses, run_pc>>
  /\ UNCHANGED <<folders, folder_idx, pdf_files, documents, pdf_idx,
                 parsed_json, top_n, cos_scores, top_indices, output>>
  /\ UNCHANGED <<xs_vars, title_vars, summary_vars>>

\* Lines 144-145: RuntimeError; main does not catch it, the run ends.
NoSectionsError ==
  /\ run_pc = "assemble"
  /\ doc_idx > Len(documents)
  /\ all_sections = <<>>
  /\ run_pc' = "crashed"
  /\ statuses' = [statuses EXCEPT ![folder_idx] = "no_sections"]
  /\ UNCHANGED <<folders, folder_idx, pdf_files, documents, pdf_idx,
                 parsed_json, doc_idx, all_sections, top_n, cos_scores,
                 top_indices, output>>
  /\ UNCHANGED <<xs_vars, title_vars, summary_vars>>

\* Cosine similarities in tenths
Scores == {3, 5, 8}

\* Lines 147-200: scores is what the embedding model gives for the texts of
\* the sections, equal texts getting equal scores; ranked_indices is what
\* np.argsort returns.
RankSections(scores, ranked_indices) ==
  /\ run_pc = "assemble"
  /\ doc_idx > Len(documents)
  /\ all_sections # <<>>
  /\ cos_scores' = scores
  /\ top_indices' = top_slice(ranked_indices, top_n)
  /\ output' =
       [extracted_sections |->
          extracted_sections_from(all_sections, top_indices', 1, top_n),
        subsection_analysis |->
          subsection_analysis_from(all_sections, top_indices', 1, top_n)]
  /\ run_pc' = "write"
  /\ UNCHANGED <<folders, folder_idx, statuses, pdf_files, documents, pdf_idx,
                 parsed_json, doc_idx, all_sections, top_n>>
  /\ UNCHANGED <<xs_vars, title_vars, summary_vars>>

\* The scores the model may give to the texts of sections
ScoresOf(sections) ==
  {s \in [1..Len(sections) -> Scores] :
     \A i, j \in 1..Len(sections) :
       sections[i].text = sections[j].text => s[i] = s[j]}

Rank ==
  /\ run_pc = "assemble"
  /\ \E scores \in ScoresOf(all_sections) :
       \E ranked_indices \in ArgsortDescending(scores) :
         RankSections(scores, ranked_indices)

\* Lines 247-251: challenge1b_output.json is written and the loop of main
\* goes on.
WriteOutput ==
  /\ run_pc = "write"
  /\ statuses' = [statuses EXCEPT ![folder_idx] = "written"]
  /\ folder_idx' = folder_idx + 1
  /\ run_pc' = "main"
  /\ ResetCollection
  /\ UNCHANGED <<folders, top_n>>
  /\ UNCHANGED <<xs_vars, title_vars, summary_vars>>

\* The loop of main is over.
Finish ==
  /\ run_pc = "main"
  /\ folder_idx > Len(folders)
  /\ run_pc' = "done"
  /\ UNCHANGED <<folders, folder_idx, statuses, pdf_files, documents, pdf_idx,
                 parsed_json, doc_idx, all_sections, top_n, cos_scores,
                 top_indices, output>>
  /\ UNCHANGED <<xs_vars, title_vars, summary_vars>>

(* ---------------------------------------------------------------------- *)
(* The files and folders of a run                                          *)
(* ---------------------------------------------------------------------- *)

MaxCollections == 2

MaxDocs == 2

MaxPages == 2

MaxPdfs == 2

MaxTopN == 5

N_a_pdf == <<"a", ".", "p", "d", "f">>

N_b_PDF == <<"b", ".", "P", "D", "F">>

N_c_pdf == <<"c", ".", "p", "d", "f">>

N_d_pdf == <<"d", ".", "p", "d", "f">>

L_Plain ==
  [text |-> T_ForEachUnit, font_size |-> 10, is_bold |-> FALSE,
   y0 |-> 26, y1 |-> 36]

L_Details ==
  [text |-> T_Details, font_size |-> 10, is_bold |-> FALSE,
   y0 |-> 10, y1 |-> 20]

L_Summary ==
  [text |-> T_Summary, font_size |-> 10, is_bold |-> FALSE,
   y0 |-> 10, y1 |-> 20]

L_TermsMean ==
  [text |-> T_TermsMean, font_size |-> 10, is_bold |-> FALSE,
   y0 |-> 10, y1 |-> 20]

\* A page without text, a page of body text, a page with a heading and body
\* text, a page with a numbered heading only.
RunPages == {<<>>, <<L_Plain>>, <<L_Summary, L_Plain>>, <<L_TermsMean>>}

\* A file of a pdfs folder: fails tells where opening or reading it raises,
\* json_ok whether the parsed JSON saved for it can be loaded again.
PdfFile(name, fails, json_ok, pages) ==
  [filename |-> name, fails |-> fails, json_ok |-> json_ok,
   page_height |-> 100, pages |-> pages]

\* Body text on page 0, a heading on page 1
F_Report == PdfFile(N_a_pdf, "none", TRUE, <<<<L_Plain>>, <<L_Summary, L_Plain>>>>)

\* An upper-case extension: saved as b.json, looked up as b.PDF
F_Upper == PdfFile(N_b_PDF, "none", TRUE, <<<<L_TermsMean>>, <<L_Details>>>>)

\* Two pages without text
F_Scan == PdfFile(N_c_pdf, "none", TRUE, <<<<>>, <<>>>>)

\* A file fitz cannot open
F_Broken == PdfFile(N_d_pdf, "open", TRUE, <<>>)

PoolListing == <<F_Report, F_Upper, F_Scan, F_Broken>>

\* The listings of a pdfs folder: the files of the pool that are there
RECURSIVE Listings(_)
Listings(pool) ==
  IF pool = <<>> THEN {<<>>}
  ELSE LET rest == Listings(Tail(pool))
       IN rest \cup {<<Head(pool)>> \o l : l \in rest}

DescriptorNames == {N_a_pdf, N_b_PDF, N_c_pdf, N_d_pdf, NoText}

\* The documents of a descriptor: at most MaxDocs file names
Descriptors ==
  UNION {[1..n -> DescriptorNames] : n \in 0..MaxDocs}

FolderKinds == {"valid", "no_input", "no_pdfs"}

\* The state when the loop of main begins: fs the subfolders of the root,
\* n the top_n given to process_documents.
InitRun(fs, n) ==
  /\ folders = fs
  /\ folder_idx = 1
  /\ statuses = [i \in 1..Len(fs) |-> "pending"]
  /\ top_n = n
  /\ run_pc = "main"
  /\ CollectionIdle
  /\ XsIdle
  /\ TitleIdle
  /\ SummaryIdle

Init ==
  \E k \in 1..MaxCollections : \E fs \in [1..k -> FolderKinds] :
    InitRun(fs, TOP_N)

TakeUpCollection ==
  \E files \in Listings(PoolListing) : \E docs \in Descriptors :
    StartCollection(files, docs)

Next ==
  \/ SkipFolder
  \/ TakeUpCollection
  \/ ProcessNextPdf
  \/ EnterProcessDocuments
  \/ AssembleDocument
  \/ NoSectionsError
  \/ Rank
  \/ WriteOutput
  \/ Finish

Spec == Init /\ [][Next]_vars

(* ---------------------------------------------------------------------- *)
(* One collection, process_documents called with any top_n                 *)
(* ---------------------------------------------------------------------- *)

InitRank == \E n \in 0..MaxTopN : InitRun(<<"valid">>, n)

TakeUpPool == \E docs \in Descriptors : StartCollection(PoolListing, docs)

NextRank ==
  \/ TakeUpPool
  \/ ProcessNextPdf
  \/ EnterProcessDocuments
  \/ AssembleDocument
  \/ NoSectionsError
  \/ Rank
  \/ WriteOutput
  \/ Finish

SpecRank == InitRank /\ [][NextRank]_vars

Min(a, b) == IF a < b THEN a ELSE b

\* The number of real (not padded) entries of the output
RealEntries == Min(top_n, Len(all_sections))

\* C1: when process_documents reaches ranking with top_n = N >= 0, both
\* extracted_sections and subsection_analysis have exactly N entries, and
\* with k < N sections the entries k+1..N have null document, section_title,
\* page_number and refined_text.
C1_ExactlyTopNEntriesPadded ==
  run_pc = "write" =>
    /\ Len(output.extracted_sections) = top_n
    /\ Len(output.subsection_analysis) = top_n
    /\ \A r \in 1..top_n :
         /\ output.extracted_sections[r].importance_rank = r
         /\ r > Len(all_sections) <=>
              output.extracted_sections[r].document = NoText
         /\ r > Len(all_sections) =>
              /\ output.extracted_sections[r].section_title = NoText
              /\ output.extracted_sections[r].page_number = NoNumber
              /\ output.subsection_analysis[r].document = NoText
              /\ output.subsection_analysis[r].refined_text = NoText
              /\ output.subsection_analysis[r].page_number = NoNumber

\* top_n = 5 with two sections: ranks 3..5 are padding.
C1_Witness ==
  /\ run_pc = "write"
  /\ top_n = 5
  /\ Len(all_sections) = 2
  /\ Len(output.extracted_sections) = 5
  /\ output.extracted_sections[2].document # NoText
  /\ output.extracted_sections[3].document = NoText
  /\ output.subsection_analysis[5].refined_text = NoText

\* C2: the real entries of extracted_sections are the sections with the
\* min(N, total) highest similarities, with importance_rank 1, 2, ... in
\* output order, and the similarity never increases from one rank to the
\* next.
C2_RankedByDescendingSimilarity ==
  run_pc = "write" =>
    /\ Len(top_indices) = RealEntries
    /\ \A i, j \in 1..RealEntries : i # j => top_indices[i] # top_indices[j]
    /\ \A r \in 1..RealEntries :
         LET section == all_sections[top_indices[r]]
             entry == output.extracted_sections[r]
         IN /\ entry.importance_rank = r
            /\ entry.document = section.document
            /\ entry.section_title = section.section_title
            /\ entry.page_number = section.page_number
    /\ \A i, j \in 1..RealEntries :
         i < j => cos_scores[top_indices[i]] >= cos_scores[top_indices[j]]
    /\ \A r \in 1..RealEntries :
         \A k \in 1..Len(all_sections) :
           (\A q \in 1..RealEntries : top_indices[q] # k)
             => cos_scores[top_indices[r]] >= cos_scores[k]

\* Sections A (0.8), B (0.3), C (0.5) and top_n = 2 give A, then C.
C2_Witness ==
  /\ run_pc = "write"
  /\ top_n = 2
  /\ cos_scores = <<8, 3, 5>>
  /\ top_indices = <<1, 3>>
  /\ output.extracted_sections[1].section_title = all_sections[1].section_title
  /\ output.extracted_sections[2].section_title = all_sections[3].section_title
  /\ output.extracted_sections[2].importance_rank = 2

\* C7: in a run over several collections, a collection that yields zero
\* sections fails alone: every sibling collection with a descriptor and a
\* pdfs folder, listed before or after it, is processed and its output
\* written.
C7_ZeroSectionsFailureIsolated ==
  run_pc \in {"done", "crashed"} =>
    \A j \in 1..Len(folders) :
      statuses[j] = "no_sections" =>
        \A i \in 1..Len(folders) :
          (i # j /\ folders[i] = "valid") => statuses[i] = "written"

(* ---------------------------------------------------------------------- *)
(* One collection of one document                                          *)
(* ---------------------------------------------------------------------- *)

DocNames == {N_a_pdf, N_b_PDF, N_file04}

DocFiles ==
  {PdfFile(name, fails, json_ok, pages) :
     name \in DocNames, fails \in {"none", "extract", "open"},
     json_ok \in BOOLEAN,
     pages \in UNION {[1..n -> RunPages] : n \in 0..MaxPages}}

InitDocument == InitRun(<<"valid">>, TOP_N)

TakeUpOneDocument ==
  \E f \in DocFiles : StartCollection(<<f>>, <<f.filename>>)

NextDocument ==
  \/ TakeUpOneDocument
  \/ ProcessNextPdf
  \/ EnterProcessDocuments
  \/ AssembleDocument

SpecDocument == InitDocument /\ [][NextDocument]_vars

\* The one document of the collection has been assembled.
Assembled ==
  /\ run_pc = "assemble"
  /\ Len(pdf_files) = 1
  /\ documents = <<pdf_files[1].filename>>
  /\ doc_idx = 2

HasJson == looked_up_json_name(pdf_files[1].filename) \in DOMAIN parsed_json

Stored == parsed_json[looked_up_json_name(pdf_files[1].filename)]

\* The 1-based numbers of the pages of file that have text
NonEmptyPages(file) ==
  {n \in 1..Len(file.pages) : page_text(file, n - 1) # <<>>}

\* C5: for every outline entry of a heading on the 0-based page p, when page
\* p has text, assembly emits a section titled with the heading text whose
\* text is the text of page p and whose page_number is p + 1.  (The
\* outlines fixed by file name are left aside.)
C5_HeadingSectionOfItsPage ==
  (/\ Assembled
   /\ HasJson
   /\ Stored.readable
   /\ Stored.data.outline = extract_document_structure(pdf_files[1].pages)) =>
    \A k \in 1..Len(Stored.data.outline) :
      LET entry == Stored.data.outline[k]
          file == pdf_files[1]
      IN (entry.page + 1 \in NonEmptyPages(file)) =>
           \E i \in 1..Len(all_sections) :
             /\ all_sections[i].document = file.filename
             /\ all_sections[i].section_title = entry.text
             /\ all_sections[i].text = page_text(file, entry.page)
             /\ all_sections[i].page_number = entry.page + 1

\* The persisted outline is missing, unreadable or empty, or gives no
\* section.
FallbackCase ==
  \/ ~HasJson
  \/ ~Stored.readable
  \/ Stored.data.outline = <<>>
  \/ heading_sections(pdf_files[1], Stored.data.outline) = <<>>

\* C6: a document whose persisted outline is empty, missing or unreadable,
\* or gives no section, is assembled as one section per page with text, in
\* page order, with the 1-based page_number n and the title "Page n".
C6_PageFallback ==
  (Assembled /\ FallbackCase) =>
    LET file == pdf_files[1]
    IN /\ Len(all_sections) = Cardinality(NonEmptyPages(file))
       /\ \A i \in 1..Len(all_sections) :
            /\ all_sections[i].page_number \in NonEmptyPages(file)
            /\ all_sections[i].document = file.filename
            /\ all_sections[i].section_title =
                 T_Page \o str(all_sections[i].page_number)
            /\ all_sections[i].text =
                 page_text(file, all_sections[i].page_number - 1)
            /\ i > 1 => all_sections[i - 1].page_number
                          < all_sections[i].page_number

\* An outline that gives no section, and two pages with text.
C6_Witness ==
  /\ Assembled
  /\ HasJson
  /\ Stored.readable
  /\ Stored.data.outline # <<>>
  /\ Len(all_sections) = 2
  /\ all_sections[1].section_title = T_Page \o <<"1">>
  /\ all_sections[2].section_title = T_Page \o <<"2">>
  /\ all_sections[2].page_number = 2

\* A missing artifact, and a page without text between none and one with.
C6_WitnessMissing ==
  /\ Assembled
  /\ ~HasJson
  /\ Len(pdf_files[1].pages) = 2
  /\ Len(all_sections) = 1
  /\ all_sections[1].page_number = 2

(* ---------------------------------------------------------------------- *)
(* process_all_pdfs_in_folder over one folder                              *)
(* ---------------------------------------------------------------------- *)

N_n_txt == <<"n", ".", "t", "x", "t">>

FolderNames == {N_a_pdf, N_b_PDF, N_c_pdf, N_n_txt}

FolderFiles ==
  {PdfFile(name, fails, TRUE, <<<<L_Summary, L_Plain>>>>) :
     name \in FolderNames, fails \in {"none", "extract", "open"}}

\* The listings of at most MaxPdfs files, no two of the same name
FolderListings ==
  {l \in UNION {[1..n -> FolderFiles] : n \in 0..MaxPdfs} :
     \A i, j \in 1..Len(l) : i # j => l[i].filename # l[j].filename}

InitFolder == InitRun(<<"valid">>, TOP_N)

TakeUpFolder == \E files \in FolderListings : StartCollection(files, <<>>)

NextFolder ==
  \/ TakeUpFolder
  \/ ProcessNextPdf
  \/ EnterProcessDocuments

SpecFolder == InitFolder /\ [][NextFolder]_vars

\* C8: when the structure extraction of a PDF fails, process_pdf returns the
\* artifact {title: "", outline: [], error: message} instead of raising, and
\* the other PDFs of the folder are processed and their artifacts written.
C8_FailureYieldsEmptyArtifact ==
  run_pc \in {"parse", "assemble"} =>
    \A i \in 1..Len(pdf_files) :
      (i < pdf_idx /\ is_pdf_name(pdf_files[i].filename)) =>
        LET name == saved_json_name(pdf_files[i].filename)
        IN /\ name \in DOMAIN parsed_json
           /\ pdf_files[i].fails # "none" =>
                /\ parsed_json[name].data.title = <<>>
                /\ parsed_json[name].data.outline = <<>>
                /\ parsed_json[name].data.error = "error"
           /\ pdf_files[i].fails = "none" =>
                parsed_json[name].data.error = None

\* A PDF that fails, then one that does not: both artifacts are written.
C8_Witness ==
  /\ run_pc = "assemble"
  /\ Len(pdf_files) = 2
  /\ pdf_files[1].fails = "extract"
  /\ pdf_files[2].fails = "none"
  /\ is_pdf_name(pdf_files[1].filename)
  /\ is_pdf_name(pdf_files[2].filename)
  /\ parsed_json[saved_json_name(pdf_files[1].filename)].data = ErrorArtifact
  /\ parsed_json[saved_json_name(pdf_files[2].filename)].data.outline # <<>>

(* ---------------------------------------------------------------------- *)
(* create_summary on any text                                              *)
(* ---------------------------------------------------------------------- *)

MaxTextLen == 7

TextChars == {"a", ".", "!", "?", " "}

\* Any text of at most MaxTextLen characters is given to create_summary.
InitSummary ==
  /\ \E n \in 0..MaxTextLen : \E t \in [1..n -> TextChars] : summary_text = t
  /\ summary = <<>>
  /\ summary_pc = "call"
  /\ XsIdle
  /\ TitleIdle
  /\ RunIdle

\* Line 173: summary = create_summary(section["text"])
CreateSummary ==
  /\ summary_pc = "call"
  /\ summary' = create_summary(summary_text, 3)
  /\ summary_pc' = "done"
  /\ UNCHANGED <<summary_text, xs_vars, title_vars, run_vars>>

NextSummary == CreateSummary

SpecSummary == InitSummary /\ [][NextSummary]_vars

\* The positions after which a text is split: a '.', '!' or '?' followed by
\* whitespace.
SplitPoints(t) ==
  {i \in 1..(Len(t) - 1) : t[i] \in {".", "!", "?"} /\ t[i + 1] \in Ws}

\* The k-th piece of t: what lies after the (k-1)-th split point up to the
\* k-th one (the end of the text for the last piece), trimmed.
Piece(t, k) ==
  LET points == SplitPoints(t)
      upto(m) ==
        IF m = 0 THEN 0
        ELSE IF m > Cardinality(points) THEN Len(t)
        ELSE CHOOSE e \in points : Cardinality({d \in points : d < e}) = m - 1
  IN strip(SubSeq(t, upto(k - 1) + 1, upto(k)))

\* The numbers of the pieces of t that are not empty
Sentences(t) ==
  {k \in 1..(Cardinality(SplitPoints(t)) + 1) : Piece(t, k) # <<>>}

\* The m-th sentence of t, in the order of the text
Sentence(t, m) ==
  Piece(t, CHOOSE k \in Sentences(t) :
             Cardinality({j \in Sentences(t) : j < k}) = m - 1)

\* s is the sentences of t from the m-th to the last-th, a space between
\* two of them.
RECURSIVE IsJoined(_, _, _, _)
IsJoined(s, t, m, last) ==
  IF m > last THEN s = <<>>
  ELSE LET first == Sentence(t, m)
       IN IF m = last THEN s = first
          ELSE /\ Len(s) > Len(first)
               /\ SubSeq(s, 1, Len(first)) = first
               /\ s[Len(first) + 1] = " "
               /\ IsJoined(SubSeq(s, Len(first) + 2, Len(s)), t, m + 1, last)

\* C11: create_summary returns the first min(3, k) of the k non-empty
\* trimmed sentences of the text (split after '.', '!' or '?' followed by
\* whitespace), in their order, joined by single spaces: all of them when
\* there are fewer than three, and "" for the empty text.
C11_FirstThreeSentencesJoined ==
  summary_pc = "done" =>
    /\ IsJoined(summary, summary_text, 1,
                Min(3, Cardinality(Sentences(summary_text))))
    /\ summary_text = <<>> => summary = <<>>

\* Four sentences, the last of them left out.
C11_Witness ==
  /\ summary_pc = "done"
  /\ summary_text = <<".", " ", "?", " ", "!", " ", "a">>
  /\ Cardinality(Sentences(summary_text)) = 4
  /\ summary = <<".", " ", "?", " ", "!">>

\* Two sentences and spaces after the second: both are returned, trimmed.
C11_WitnessFewer ==
  /\ summary_pc = "done"
  /\ summary_text = <<"a", "!", " ", " ", "a", ".", " ">>
  /\ summary = <<"a", "!", " ", "a", ".">>

(* ---------------------------------------------------------------------- *)
(* The all-uppercase case of the second pass                               *)
(* ---------------------------------------------------------------------- *)

\* C12: a line that matches no list-item, numbering or common-heading rule
\* and fails the visual rule, but is all-uppercase and longer than 5
\* characters, is a heading: H1 when its font size is at least 1.2 times the
\* median, H2 otherwise.
C12_AllCapsLineIsHeading ==
  (Len(all_blocks) = 1 /\ block_idx = 2 /\ xs_pc = "second_pass") =>
    LET b == all_blocks[1]
        text == normalize_text(b.text)
        ratio(k) == 10 * b.font_size >= k * median_font_size
        salient == /\ b.is_bold \/ ratio(12)
                   /\ b.whitespace_above >= 6
                   /\ WordCount(text) <= 30
    IN (/\ ~is_list_item(text)
        /\ is_heading_by_numbering(text) = None
        /\ is_common_heading(text) = None
        /\ ~salient
        /\ isupper(text)
        /\ Len(text) > 5) =>
         /\ Len(heading_candidates) = 1
         /\ heading_candidates[1].level = IF ratio(12) THEN "H1" ELSE "H2"

(* ---------------------------------------------------------------------- *)
(* The numeric-prefix rule of refine_document_structure                    *)
(* ---------------------------------------------------------------------- *)

\* C13: the numeric-prefix rule forces H2 on a text beginning with "N.M" or
\* "N.M.K" and H1 on a bare "N.", but a candidate whose level the numbering
\* pattern set keeps that level: a first "N.M.K Capitalized" candidate
\* classified H3 is H3 in the refined outline.  (Stated of the first entry,
\* which no rule about the previous entry touches.)
C13_NumberingLevelKept ==
  (xs_pc = "done" /\ outline # <<>>) =>
    LET candidate == heading_candidates[1]
        matched == is_heading_by_numbering(candidate.text)
    IN outline[1].level =
         IF matched # None THEN matched
         ELSE IF has_subsection(candidate.text) THEN "H2"
         ELSE IF section_match(candidate.text) THEN "H1"
         ELSE candidate.level

====
